---------------------------- MODULE Spec2Model ----------------------------
(***************************************************************************)
(* Ingestion pipeline of the Taiwanese law corpus: the rate-limited        *)
(* fetcher (lib/fetcher), the record transformer (lib/parser) and the      *)
(* ingestion orchestrator (ingest).                                        *)
(*                                                                         *)
(* Text is modelled as a sequence of characters, each character a string   *)
(* token: "LF", "CR" and "NBSP" stand for line feed, carriage return and   *)
(* U+00A0, "DI" and "TIAO" for the ideographs U+7B2C and U+689D that       *)
(* enclose an article number; every other token is the character itself.   *)
(***************************************************************************)
EXTENDS Integers, Sequences, FiniteSets, TLC

VARIABLES
    \* ---- record transformer (parseLawToSeed) ----
    record,         \* the OpenApiLawRecord handed to parseLawToSeed
    target,         \* the TargetLawConfig handed to parseLawToSeed
    clockH,         \* Date.now() of the machine, in hours since the epoch (UTC)
    tzOffsetH,      \* the machine's time zone: local time = UTC + tzOffsetH hours
    act,            \* the ParsedAct returned, NoAct before the call
    regexLastIndex, \* SECTION_ENUM_REGEX.lastIndex + 1: the index of the character
                    \* of the subject at which the next exec starts to scan
    firstAct,       \* the ParsedAct the first call on `record` returned
    callLog,        \* the calls of parseLawToSeed made so far, in order: "record"
                    \* for a call on `record`, "other" for a call on another record
    \* ---- rate-limited fetcher (fetchBinaryWithRateLimit) ----
    sinceStamp,     \* Date.now() - lastRequestAt in ms, counted up to MIN_DELAY_MS
    call,           \* per caller: the state of its fetchBinaryWithRateLimit call
    sinceStart,     \* ms since the latest outbound request started, counted up to
                    \* MIN_DELAY_MS; -1 before the first request
    lastGap,        \* ms between the starts of the two latest outbound requests,
                    \* counted up to MIN_DELAY_MS; -1 before the second request
    \* ---- ingestion orchestrator (main) ----
    main,           \* the position and the locals of main()
    remote,         \* per dataset: what its endpoint serves
    sourceDir,      \* data/source: per dataset the cached ZIP and JSON files
    seedDir,        \* data/seed: file name -> content
    fetchLog,       \* the datasets fetched in this run, in order
    writeLog        \* the seed files written in this run, in order

seedVars == <<record, target, clockH, tzOffsetH, act>>

scanVars == <<regexLastIndex, firstAct, callLog>>

fetchVars == <<sinceStamp, call, sinceStart, lastGap>>

ingestVars == <<main, remote, sourceDir, seedDir, fetchLog, writeLog>>

-----------------------------------------------------------------------------
(* Characters and strings *)

\* the value of an absent (undefined) string field
Undefined == <<"undefined">>

Digit == {"0", "1", "2", "3", "4", "5", "6", "7", "8", "9"}

\* the characters the regular-expression class \s and String.trim() strip
WhiteSpace == {" ", "TAB", "LF", "CR", "NBSP"}

\* U+7B2C and U+689D, the ideographs of the heading "DI n TIAO" (article n)
ChDi == "DI"

ChTiao == "TIAO"

AsciiLetter == {"a", "r", "t", "x"}

DigitVal(c) ==
    CASE c = "0" -> 0 [] c = "1" -> 1 [] c = "2" -> 2 [] c = "3" -> 3
      [] c = "4" -> 4 [] c = "5" -> 5 [] c = "6" -> 6 [] c = "7" -> 7
      [] c = "8" -> 8 [] c = "9" -> 9

DigitChar(n) ==
    CASE n = 0 -> "0" [] n = 1 -> "1" [] n = 2 -> "2" [] n = 3 -> "3"
      [] n = 4 -> "4" [] n = 5 -> "5" [] n = 6 -> "6" [] n = 7 -> "7"
      [] n = 8 -> "8" [] n = 9 -> "9"

\* String(n) for a natural number n
RECURSIVE NumToString(_)
NumToString(n) ==
    IF n < 10 THEN <<DigitChar(n)>>
    ELSE NumToString(n \div 10) \o <<DigitChar(n % 10)>>

\* Number.parseInt(s, 10) for a string of decimal digits
RECURSIVE ParseInt(_)
ParseInt(s) ==
    IF s = <<>> THEN 0
    ELSE 10 * ParseInt(SubSeq(s, 1, Len(s) - 1)) + DigitVal(s[Len(s)])

\* s.replace(/[^...]/g, ''): the characters of s that are in keep
RECURSIVE KeepOnly(_, _)
KeepOnly(s, keep) ==
    IF s = <<>> THEN <<>>
    ELSE (IF Head(s) \in keep THEN <<Head(s)>> ELSE <<>>) \o KeepOnly(Tail(s), keep)

RECURSIVE TrimStart(_)
TrimStart(s) ==
    IF s # <<>> /\ Head(s) \in WhiteSpace THEN TrimStart(Tail(s)) ELSE s

RECURSIVE TrimEnd(_)
TrimEnd(s) ==
    IF s # <<>> /\ s[Len(s)] \in WhiteSpace
    THEN TrimEnd(SubSeq(s, 1, Len(s) - 1))
    ELSE s

Trim(s) == TrimEnd(TrimStart(s))

\* text.replace(/\r\n/g, '\n')
RECURSIVE ReplaceCrLf(_)
ReplaceCrLf(s) ==
    IF s = <<>> THEN <<>>
    ELSE IF Len(s) >= 2 /\ s[1] = "CR" /\ s[2] = "LF"
         THEN <<"LF">> \o ReplaceCrLf(SubSeq(s, 3, Len(s)))
         ELSE <<Head(s)>> \o ReplaceCrLf(Tail(s))

\* text.replace(/\u00a0/g, ' ')
RECURSIVE ReplaceNbsp(_)
ReplaceNbsp(s) ==
    IF s = <<>> THEN <<>>
    ELSE <<IF Head(s) = "NBSP" THEN " " ELSE Head(s)>> \o ReplaceNbsp(Tail(s))

\* text.split('\n'): the sequence of lines
RECURSIVE SplitLines(_, _)
SplitLines(s, line) ==
    IF s = <<>> THEN <<line>>
    ELSE IF Head(s) = "LF" THEN <<line>> \o SplitLines(Tail(s), <<>>)
         ELSE SplitLines(Tail(s), Append(line, Head(s)))

\* lines.join('\n')
RECURSIVE JoinLines(_)
JoinLines(lines) ==
    IF Len(lines) = 1 THEN lines[1]
    ELSE lines[1] \o <<"LF">> \o JoinLines(Tail(lines))

normalizeText(text) ==
    LET lines   == SplitLines(ReplaceNbsp(ReplaceCrLf(text)), <<>>)
        trimmed == [i \in 1..Len(lines) |-> TrimEnd(lines[i])]
    IN  Trim(JoinLines(trimmed))

\* text.replace(/\s+/g, ' '): every run of white space becomes one space
RECURSIVE CollapseSpace(_, _)
CollapseSpace(s, inRun) ==
    IF s = <<>> THEN <<>>
    ELSE IF Head(s) \in WhiteSpace
         THEN (IF inRun THEN <<>> ELSE <<" ">>) \o CollapseSpace(Tail(s), TRUE)
         ELSE <<Head(s)>> \o CollapseSpace(Tail(s), FALSE)

normalizeLooseWhitespace(text) == Trim(CollapseSpace(text, FALSE))


-----------------------------------------------------------------------------
(* lib/parser: dates and status *)

\* the upstream convention for "effective date not fixed"
SentinelDate == <<"9", "9", "9", "9", "1", "2", "3", "1">>

IsoDate(cleaned) ==
    SubSeq(cleaned, 1, 4) \o <<"-">> \o SubSeq(cleaned, 5, 6) \o <<"-">>
        \o SubSeq(cleaned, 7, 8)

parseDateToIso(raw) ==
    IF raw = Undefined \/ raw = <<>> THEN Undefined
    ELSE LET cleaned == Trim(raw)
         IN  IF ~(Len(cleaned) = 8 /\ \A i \in 1..8 : cleaned[i] \in Digit)
             THEN Undefined
             ELSE LET year  == ParseInt(SubSeq(cleaned, 1, 4))
                      month == ParseInt(SubSeq(cleaned, 5, 6))
                      day   == ParseInt(SubSeq(cleaned, 7, 8))
                  IN  IF year < 1900 \/ month < 1 \/ month > 12 \/ day < 1 \/ day > 31
                      THEN Undefined
                      ELSE IsoDate(cleaned)

\* days from 1970-01-01 to the civil date y-m-d (proleptic Gregorian calendar);
\* a day past the end of its month runs on into the next month
DaysFromCivil(y, m, d) ==
    LET yy  == IF m <= 2 THEN y - 1 ELSE y
        era == yy \div 400
        yoe == yy - era * 400
        mp  == (m + 9) % 12
        doy == (153 * mp + 2) \div 5 + d - 1
        doe == yoe * 365 + yoe \div 4 - yoe \div 100 + doy
    IN  era * 146097 + doe - 719468

HoursPerDay == 24

\* new Date(`${iso}T00:00:00Z`): <<t>>, t its getTime() in hours, or <<>> for
\* no Date
parseDate(raw) ==
    LET iso == parseDateToIso(raw)
    IN  IF iso = Undefined THEN <<>>
        ELSE <<DaysFromCivil(ParseInt(SubSeq(iso, 1, 4)),
                             ParseInt(SubSeq(iso, 6, 7)),
                             ParseInt(SubSeq(iso, 9, 10))) * HoursPerDay>>

\* new Date() followed by setHours(0, 0, 0, 0): the midnight that began the
\* machine's local calendar day, as an instant in hours since the epoch
LocalDay(nowH, tzH) == (nowH + tzH) \div HoursPerDay

LocalMidnight(nowH, tzH) == LocalDay(nowH, tzH) * HoursPerDay - tzH

IsTruthy(s) == s # Undefined /\ s # <<>>

TrimOpt(s) == IF s = Undefined THEN Undefined ELSE Trim(s)

deriveStatus(rec, nowH, tzH) ==
    IF IsTruthy(rec.LawAbandonNote) /\ Trim(rec.LawAbandonNote) # <<>>
    THEN "repealed"
    ELSE IF TrimOpt(rec.LawEffectiveDate) = SentinelDate
    THEN "amended"
    ELSE LET effectiveDate == parseDate(rec.LawEffectiveDate)
         IN  IF effectiveDate # <<>>
                /\ effectiveDate[1] > LocalMidnight(nowH, tzH)
             THEN "not_yet_in_force"
             ELSE "in_force"

-----------------------------------------------------------------------------
(* lib/parser: sections and provisions *)

RECURSIVE SkipSpace(_, _)
SkipSpace(s, i) ==
    IF i <= Len(s) /\ s[i] \in WhiteSpace THEN SkipSpace(s, i + 1) ELSE i

\* the last index of the run of digits of s that starts at i; i - 1 if none
RECURSIVE DigitRunEnd(_, _)
DigitRunEnd(s, i) ==
    IF i <= Len(s) /\ s[i] \in Digit THEN DigitRunEnd(s, i + 1) ELSE i - 1

\* (?:-[0-9]+)* after a run of digits ending at e
RECURSIVE HyphenGroupsEnd(_, _)
HyphenGroupsEnd(s, e) ==
    IF e + 1 <= Len(s) /\ s[e + 1] = "-" /\ DigitRunEnd(s, e + 2) >= e + 2
    THEN HyphenGroupsEnd(s, DigitRunEnd(s, e + 2))
    ELSE e

\* ARTICLE_NUMBER_REGEX anchored at index i: the captured group, <<>> if none
ArticleNumberAt(s, i) ==
    IF s[i] # ChDi THEN <<>>
    ELSE LET j  == SkipSpace(s, i + 1)
             e0 == DigitRunEnd(s, j)
         IN  IF e0 < j THEN <<>>
             ELSE LET e == HyphenGroupsEnd(s, e0)
                      k == SkipSpace(s, e + 1)
                  IN  IF k <= Len(s) /\ s[k] = ChTiao THEN SubSeq(s, j, e) ELSE <<>>

\* articleNo.match(ARTICLE_NUMBER_REGEX)?.[1]: the leftmost match
RECURSIVE ArticleNumberFrom(_, _)
ArticleNumberFrom(s, i) ==
    IF i > Len(s) THEN <<>>
    ELSE IF ArticleNumberAt(s, i) # <<>> THEN ArticleNumberAt(s, i)
         ELSE ArticleNumberFrom(s, i + 1)

ARTICLE_NUMBER_REGEX(s) == ArticleNumberFrom(s, 1)

\* s.replace(/\s+/g, ''): s without its white space
RECURSIVE DropSpace(_)
DropSpace(s) ==
    IF s = <<>> THEN <<>>
    ELSE (IF Head(s) \in WhiteSpace THEN <<>> ELSE <<Head(s)>>) \o DropSpace(Tail(s))

parseSection(articleNo, ordinal) ==
    LET direct   == ARTICLE_NUMBER_REGEX(articleNo)
        fallback == KeepOnly(DropSpace(articleNo), Digit \cup {"-"})
    IN  IF direct # <<>> THEN direct
        ELSE IF fallback # <<>> THEN fallback
        ELSE NumToString(ordinal + 1)

\* `art${section}`.replace(/[^0-9A-Za-z-]/g, '')
RawRef(section) == KeepOnly(<<"a", "r", "t">> \o section, Digit \cup AsciiLetter \cup {"-"})

\* provisionRefCount.get(rawRef) ?? 0
MapGet(map, key) == IF key \in DOMAIN map THEN map[key] ELSE 0

\* provisionRefCount.set(rawRef, n)
MapSet(map, key, n) ==
    [k \in DOMAIN map \cup {key} |-> IF k = key THEN n ELSE map[k]]

ProvisionRef(rawRef, seen) ==
    IF seen = 0 THEN rawRef ELSE rawRef \o <<"-">> \o NumToString(seen + 1)

OrEmpty(s) == IF s = Undefined THEN <<>> ELSE s

SynthTitle(section) == <<ChDi, " ">> \o section \o <<" ", ChTiao>>

ProvisionTitle(articleNo, section) ==
    normalizeLooseWhitespace(IF articleNo = Undefined THEN SynthTitle(section) ELSE articleNo)

\* the class [U+4E00 U+4E8C U+4E09 ... U+5343] of SECTION_ENUM_REGEX: the
\* ideographs of the numerals one to ten, hundred and thousand
ChNumeral == {"NUM1", "NUM2", "NUM3", "NUM10"}

\* U+3001 (enumeration comma) and U+FF1A (full-width colon)
ChDun == "DUN"

ChColon == "COLON"

\* the marker phrase U+5B9A U+7FA9 U+5982 U+4E0B (defined as follows)
Marker == <<"DING", "YI", "RU", "XIA">>

\* articleContent.includes(sub)
Includes(s, sub) ==
    \E i \in 1..(Len(s) - Len(sub) + 1) : SubSeq(s, i, i + Len(sub) - 1) = sub

\* the last index of the run of numerals of s that starts at i; i - 1 if none
RECURSIVE NumeralRunEnd(_, _)
NumeralRunEnd(s, i) ==
    IF i <= Len(s) /\ s[i] \in ChNumeral THEN NumeralRunEnd(s, i + 1) ELSE i - 1

\* the last index of the run of [^COLON LF] of s that starts at i; i - 1 if none
RECURSIVE TermRunEnd(_, _)
TermRunEnd(s, i) ==
    IF i <= Len(s) /\ s[i] \notin {ChColon, "LF"} THEN TermRunEnd(s, i + 1) ELSE i - 1

NoTerm == [ok |-> FALSE, from |-> 0, to |-> 0]

\* \s*([^COLON LF]+)COLON anchored at index q: the captured term s[from..to]
\* (the colon is at to + 1).  \s* is greedy and gives back at most the one
\* white-space character the term needs.
TermAt(s, q) ==
    LET w == SkipSpace(s, q)
        t == TermRunEnd(s, w)
    IN  IF t >= w
        THEN (IF t + 1 <= Len(s) /\ s[t + 1] = ChColon
              THEN [ok |-> TRUE, from |-> w, to |-> t] ELSE NoTerm)
        ELSE (IF w <= Len(s) /\ s[w] = ChColon /\ w - 1 >= q /\ s[w - 1] # "LF"
              THEN [ok |-> TRUE, from |-> w - 1, to |-> w - 1] ELSE NoTerm)

\* [numerals]+ DUN \s* [^COLON LF]+ COLON anchored at index i
EnumHeadAt(s, i) ==
    LET e == NumeralRunEnd(s, i)
    IN  IF e >= i /\ e + 1 <= Len(s) /\ s[e + 1] = ChDun THEN TermAt(s, e + 2) ELSE NoTerm

\* the lookahead (?=(?:LF|\s)[numerals]+ DUN \s* [^COLON LF]+ COLON|$) at index p
LookaheadAt(s, p) ==
    \/ p > Len(s)
    \/ s[p] \in WhiteSpace /\ EnumHeadAt(s, p + 1).ok

\* the lazy [\s\S]*? from index d: the first index at which the lookahead holds
RECURSIVE LazyEnd(_, _)
LazyEnd(s, p) == IF LookaheadAt(s, p) THEN p ELSE LazyEnd(s, p + 1)

NoMatch == [ok |-> FALSE, term |-> <<>>, definition |-> <<>>, lastIndex |-> 1]

\* the match whose head is `head` and whose lazy group 2 ends before index p
EnumMatchTo(s, head, p) ==
    [ok |-> TRUE, term |-> SubSeq(s, head.from, head.to),
     definition |-> SubSeq(s, SkipSpace(s, head.to + 2), p - 1), lastIndex |-> p]

EnumMatchOf(s, head) ==
    IF ~head.ok THEN NoMatch
    ELSE EnumMatchTo(s, head, LazyEnd(s, SkipSpace(s, head.to + 2)))

\* SECTION_ENUM_REGEX anchored at index i: groups 1 and 2 and the index after
\* the match
EnumMatchAt(s, i) == EnumMatchOf(s, EnumHeadAt(s, i))

\* SECTION_ENUM_REGEX.exec(s) with the scan position at lastIndex: the leftmost
\* match at or after it; no match puts the scan position back to the start
RECURSIVE EnumExec(_, _)
EnumExec(s, lastIndex) ==
    IF lastIndex > Len(s) THEN NoMatch
    ELSE IF EnumHeadAt(s, lastIndex).ok THEN EnumMatchAt(s, lastIndex)
    ELSE EnumExec(s, lastIndex + 1)

RECURSIVE DefinitionLoop(_, _, _, _, _)

\* the body of the while loop for a match with groups term and definition
DefinitionBody(s, lastIndex, term, definition, sourceProvision, found, seen) ==
    IF \/ term = <<>> \/ definition = <<>>
       \/ (term \o <<":", ":">> \o definition) \in seen
    THEN DefinitionLoop(s, lastIndex, sourceProvision, found, seen)
    ELSE DefinitionLoop(s, lastIndex, sourceProvision,
            Append(found, [term |-> term, definition |-> definition,
                           source_provision |-> sourceProvision]),
            seen \cup {term \o <<":", ":">> \o definition})

\* the while condition: the loop ends when exec returns no match, with the
\* definitions found and the scan position that exec left
DefinitionWhile(s, match, sourceProvision, found, seen) ==
    IF ~match.ok THEN [found |-> found, lastIndex |-> match.lastIndex]
    ELSE DefinitionBody(s, match.lastIndex,
                        normalizeLooseWhitespace(match.term),
                        normalizeLooseWhitespace(match.definition),
                        sourceProvision, found, seen)

\* the while loop of extractDefinitions from scan position lastIndex on
DefinitionLoop(s, lastIndex, sourceProvision, found, seen) ==
    DefinitionWhile(s, EnumExec(s, lastIndex), sourceProvision, found, seen)

\* SECTION_ENUM_REGEX.lastIndex = 0, then the loop
extractDefinitions(articleContent, sourceProvision) ==
    IF ~Includes(articleContent, Marker) THEN <<>>
    ELSE DefinitionLoop(articleContent, 1, sourceProvision, <<>>, {}).found

\* a matcher whose scan position is neither reset before the loop nor by the
\* exec that ends it
ScanDefinitions_Carried(articleContent, sourceProvision, lastIndex) ==
    IF ~Includes(articleContent, Marker)
    THEN [found |-> <<>>, lastIndex |-> lastIndex]
    ELSE [found     |-> DefinitionLoop(articleContent, lastIndex, sourceProvision,
                                       <<>>, {}).found,
          lastIndex |-> Len(articleContent) + 1]

\* extractDefinitions called with the shared scan position at lastIndex: the
\* definitions found and the scan position left behind
ScanDefinitions(articleContent, sourceProvision, lastIndex) ==
    IF ~Includes(articleContent, Marker)
    THEN [found |-> <<>>, lastIndex |-> lastIndex]
    ELSE DefinitionLoop(articleContent, 1, sourceProvision, <<>>, {})

\* the loop run over the articles of every type
ArticleRows_AllTypes(rec) == rec.LawArticles

ArticleRows(rec) ==
    SelectSeq(rec.LawArticles, LAMBDA article : article.ArticleType = "A")

\* one iteration of the loop of parseLawToSeed: the loop state after the
\* article with the given section and normalized content
\* provisions.push(...) and definitions.push(...extractDefinitions(...)):
\* the loop state after a provision and the scan of its content
SeedPush(st, counted, provision, scan) ==
    [provisionRefCount |-> counted,
     provisions        |-> Append(st.provisions, provision),
     definitions       |-> st.definitions \o scan.found,
     lastIndex         |-> scan.lastIndex]

\* a loop that hands the base reference, not the provision's reference, to
\* extractDefinitions
SeedStep_BaseRef(st, article, section, content) ==
    LET rawRef       == RawRef(section)
        seen         == MapGet(st.provisionRefCount, rawRef)
        counted      == MapSet(st.provisionRefCount, rawRef, seen + 1)
        provisionRef == ProvisionRef(rawRef, seen)
    IN  IF content = <<>>
        THEN [st EXCEPT !.provisionRefCount = counted]
        ELSE SeedPush(st, counted,
                      [provision_ref |-> provisionRef,
                       section       |-> section,
                       title         |-> ProvisionTitle(article.ArticleNo, section),
                       content       |-> content],
                      ScanDefinitions(content, rawRef, st.lastIndex))

SeedStep(st, article, section, content) ==
    LET rawRef       == RawRef(section)
        seen         == MapGet(st.provisionRefCount, rawRef)
        counted      == MapSet(st.provisionRefCount, rawRef, seen + 1)
        provisionRef == ProvisionRef(rawRef, seen)
    IN  IF content = <<>>
        THEN [st EXCEPT !.provisionRefCount = counted]
        ELSE SeedPush(st, counted,
                      [provision_ref |-> provisionRef,
                       section       |-> section,
                       title         |-> ProvisionTitle(article.ArticleNo, section),
                       content       |-> content],
                      ScanDefinitions(content, provisionRef, st.lastIndex))

\* the loop of parseLawToSeed from index i on, loop state st
RECURSIVE SeedLoop(_, _, _)
SeedLoop(articleRows, i, st) ==
    IF i > Len(articleRows) THEN st
    ELSE SeedLoop(articleRows, i + 1,
                  SeedStep(st, articleRows[i],
                           parseSection(OrEmpty(articleRows[i].ArticleNo), i - 1),
                           normalizeText(OrEmpty(articleRows[i].ArticleContent))))

\* String.trim() on the names of the model (LawName, EngLawName)
TrimName(name) == IF name = " " THEN "" ELSE name

\* record.EngLawName?.trim() || record.LawName
TitleEn(rec) ==
    IF TrimName(rec.EngLawName) # "" THEN TrimName(rec.EngLawName) ELSE rec.LawName

InForceDate(rec) ==
    IF TrimOpt(rec.LawEffectiveDate) = SentinelDate THEN Undefined
    ELSE parseDateToIso(rec.LawEffectiveDate)

\* the ParsedAct returned after the loop has left the loop state st
ParsedAct(rec, tgt, st, nowH, tzH) ==
    [id            |-> tgt.id,
     type          |-> "statute",
     title         |-> rec.LawName,
     title_en      |-> TitleEn(rec),
     short_name    |-> tgt.shortName,
     status        |-> deriveStatus(rec, nowH, tzH),
     issued_date   |-> parseDateToIso(rec.LawModifiedDate),
     in_force_date |-> InForceDate(rec),
     url           |-> rec.LawURL,
     description   |-> Len(st.provisions),   \* "Articles extracted: n."
     provisions    |-> st.provisions,
     definitions   |-> st.definitions]

\* the loop state when the loop of parseLawToSeed ends, the shared scan
\* position being at lastIndex when the call starts
SeedRun(rec, lastIndex) ==
    SeedLoop(ArticleRows(rec), 1,
             [provisionRefCount |-> <<>>, provisions |-> <<>>, definitions |-> <<>>,
              lastIndex |-> lastIndex])

\* the Act returned by a call that starts with the scan position at lastIndex
parseLawToSeed(rec, tgt, nowH, tzH, lastIndex) ==
    ParsedAct(rec, tgt, SeedRun(rec, lastIndex), nowH, tzH)

\* the scan position that call leaves behind
LastIndexAfter(rec, lastIndex) == SeedRun(rec, lastIndex).lastIndex

-----------------------------------------------------------------------------
(* The transformer applied to one record *)

MaxArticles == 3

NoAct == [id |-> "none"]

\* the headings (ArticleNo) the records are built from
ArticleNos ==
    { <<ChDi, " ", "1", " ", ChTiao>>,         \* canonical heading, section 1
      <<ChDi, "1", "-", "2", ChTiao>>,         \* hyphenated section 1-2
      <<"1", " ">>,                            \* no canonical heading: digits kept
      <<"x">>,                                 \* no digit at all: ordinal + 1
      <<" ">>,                                 \* white space only
      Undefined }                              \* heading absent

ArticleContents == { <<>>, <<"a">>, <<"NBSP", "CR", "LF">> }

Articles ==
    [ArticleType : {"A"}, ArticleNo : ArticleNos, ArticleContent : ArticleContents]
    \cup
    [ArticleType : {"B"}, ArticleNo : {<<"x">>}, ArticleContent : {<<"a">>}]

ArticleLists == UNION {[1..n -> Articles] : n \in 0..MaxArticles}

EffectiveDates ==
    { Undefined, <<>>,
      NumToString(20261103), NumToString(20261104), NumToString(20261105), NumToString(20261106),
      <<" ">> \o NumToString(20261104) \o <<" ">>,
      SentinelDate, <<" ">> \o SentinelDate,
      NumToString(2026110), NumToString(20261304), NumToString(18991231) }

AbandonNotes == { Undefined, <<>>, <<" ">>, <<"x">> }

\* the instants and time zones of the machine: around 2026-11-04 (UTC)
ClockDay == DaysFromCivil(2026, 11, 4)

ClockHours == { ClockDay * HoursPerDay + h : h \in {0, 9, 23} }

TimeZones == { -11, -5, 0, 8, 14 }

Targets ==
    { [id |-> "tw-pdpa", pcode |-> "I0050021", shortName |-> "PDPA",
       fileName |-> "01-personal-data-protection.json"] }

BaseRecord ==
    [LawName |-> "law", EngLawName |-> "", LawURL |-> "", LawModifiedDate |-> NumToString(20200101),
     LawEffectiveDate |-> NumToString(20200101), LawAbandonNote |-> Undefined,
     LawArticles |-> <<>>]

\* contents with enumerated clauses, with and without the marker phrase
TwoClauses ==
    <<"NUM1", ChDun, "a", ChColon, "x", "LF", "NUM2", ChDun, "b", ChColon, "y">>

DefinitionContents ==
    { Marker \o <<ChColon, "LF">> \o TwoClauses,
      TwoClauses,
      Marker \o <<ChColon, "LF">> \o TwoClauses \o <<"LF">> \o TwoClauses,
      Marker \o <<"NUM1", ChDun, " ", ChColon, "x", " ", "NUM2", ChDun, "b", ChColon, "LF", "NUM3", ChDun, "r", ChColon, "y">> }

DefinitionArticles ==
    [ArticleType : {"A", "B"}, ArticleNo : {<<ChDi, " ", "2", " ", ChTiao>>},
     ArticleContent : DefinitionContents]

SeedRecords ==
    { [BaseRecord EXCEPT !.LawArticles = a] : a \in ArticleLists }
    \cup
    { [BaseRecord EXCEPT !.LawArticles = <<a>>] : a \in DefinitionArticles }
    \cup
    { [BaseRecord EXCEPT !.LawEffectiveDate = d, !.LawAbandonNote = n] :
        d \in EffectiveDates, n \in AbandonNotes }

SeedInputs ==
    /\ record \in SeedRecords
    /\ target \in Targets
    /\ clockH \in ClockHours
    /\ tzOffsetH \in TimeZones
    /\ record.LawArticles # <<>> => (clockH = ClockDay * HoursPerDay /\ tzOffsetH = 0)
    /\ act = NoAct
    /\ regexLastIndex = 1
    /\ firstAct = NoAct
    /\ callLog = <<>>

\* parseLawToSeed(record, target) is called for the first time and returns
Transform ==
    /\ act = NoAct
    /\ act' = parseLawToSeed(record, target, clockH, tzOffsetH, regexLastIndex)
    /\ firstAct' = act'
    /\ regexLastIndex' = LastIndexAfter(record, regexLastIndex)
    /\ callLog' = Append(callLog, "record")
    /\ UNCHANGED <<record, target, clockH, tzOffsetH>>

\* the number of calls a run of the repeated transformer makes
MaxCalls == 3

\* the records of the other calls: one article with enumerated clauses each
OtherRecords ==
    { [BaseRecord EXCEPT !.LawArticles = <<a>>] : a \in DefinitionArticles }

\* the records called again: one or two such articles, or none and a date
RepeatRecords ==
    OtherRecords
    \cup
    { [BaseRecord EXCEPT !.LawArticles = a] : a \in [1..2 -> DefinitionArticles] }
    \cup
    { [BaseRecord EXCEPT !.LawEffectiveDate = d] : d \in EffectiveDates }

RepeatInputs ==
    /\ record \in RepeatRecords
    /\ target \in Targets
    /\ clockH \in ClockHours
    /\ tzOffsetH \in TimeZones
    /\ record.LawArticles # <<>> => (clockH = ClockDay * HoursPerDay /\ tzOffsetH = 0)
    /\ act = NoAct
    /\ regexLastIndex = 1
    /\ firstAct = NoAct
    /\ callLog = <<>>

\* parseLawToSeed(record, target) is called once more and returns
TransformAgain ==
    /\ act # NoAct
    /\ Len(callLog) < MaxCalls
    /\ act' = parseLawToSeed(record, target, clockH, tzOffsetH, regexLastIndex)
    /\ regexLastIndex' = LastIndexAfter(record, regexLastIndex)
    /\ callLog' = Append(callLog, "record")
    /\ UNCHANGED <<record, target, clockH, tzOffsetH, firstAct>>

\* parseLawToSeed is called on another record r; what it returns is dropped
TransformOther(r) ==
    /\ r # record
    /\ Len(callLog) < MaxCalls
    /\ regexLastIndex' = LastIndexAfter(r, regexLastIndex)
    /\ callLog' = Append(callLog, "other")
    /\ UNCHANGED <<record, target, clockH, tzOffsetH, act, firstAct>>

\* time passes within the machine's current calendar day
ClockAdvance(h) ==
    /\ h > clockH
    /\ LocalDay(h, tzOffsetH) = LocalDay(clockH, tzOffsetH)
    /\ clockH' = h
    /\ UNCHANGED <<record, target, tzOffsetH, act, regexLastIndex, firstAct, callLog>>

-----------------------------------------------------------------------------
(* lib/fetcher *)

MIN_DELAY_MS == 1200

DefaultMaxRetries == 3

Callers == {1, 2}

Urls == {"law", "order"}

\* the maxRetries arguments of the calls: 0 .. MaxRetriesArg, the default among them
MaxRetriesArg == 3

RetryChoices == 0..MaxRetriesArg \cup {DefaultMaxRetries}

\* the HTTP statuses the endpoint answers with
Statuses == {200, 404, 429, 503}

\* how long a request takes to be answered or to fail, in ms
ReqDurations == {100, 1500}

\* how long the caller waits before it makes a call, in ms
IdleGaps == {0, 500, 2000}

\* how an attempt ends: with an HTTP response, or with a network-level failure
HttpOutcome(status) == [net |-> FALSE, status |-> status]

NetworkError == [net |-> TRUE, status |-> 0]

IsRetryableStatus(status) == status = 429 \/ status >= 500

\* a backoff that starts at one second instead of two
BackoffMs_FromOne(attempt) == (2 ^ attempt) * 1000

\* Math.pow(2, attempt + 1) * 1000
BackoffMs(attempt) == (2 ^ (attempt + 1)) * 1000

NoResult == [kind |-> "none", status |-> 0, body |-> 0]

IdleCall ==
    [pc |-> "idle", url |-> "law", maxRetries |-> DefaultMaxRetries, attempt |-> 0,
     sleepLeft |-> 0, requests |-> 0, outcomes |-> <<>>, delays |-> <<>>,
     curl |-> "none", curlCalls |-> 0, result |-> NoResult]

\* The module is loaded: lastRequestAt = 0, far in the past of Date.now()
InitFetch ==
    /\ sinceStamp = MIN_DELAY_MS
    /\ call = [c \in Callers |-> IdleCall]
    /\ sinceStart = -1
    /\ lastGap = -1

\* a time span as the model counts it: spans of MIN_DELAY_MS and more are alike
Capped(ms) == IF ms > MIN_DELAY_MS THEN MIN_DELAY_MS ELSE ms

\* the span x (or -1, no span) after d more ms
After(x, d) == IF x = -1 THEN -1 ELSE Capped(x + d)

\* the callers other than c whose sleep (setTimeout) is pending
Sleepers(c) == {o \in Callers \ {c} : call[o].pc \in {"pacing", "backoff"}}

\* d ms can pass before the next step of caller c: no pending sleep of
\* another caller ends earlier
CanPass(c, d) == \A o \in Sleepers(c) : d <= call[o].sleepLeft

\* the calls cs after d ms have passed for the sleeps of the callers other
\* than c; a sleep that is due is left at 0 (its timer fires next)
Pass(cs, c, d) ==
    [o \in Callers |->
        IF o \in Sleepers(c)
        THEN [cs[o] EXCEPT !.sleepLeft = IF @ > d THEN @ - d ELSE 0]
        ELSE cs[o]]

\* lastRequestAt = Date.now() at the end of waitForRateLimit and, in the same
\* turn, the first fetch of the loop, d ms after the latest event
StampAndFetch(c, st, d) ==
    /\ sinceStamp' = 0
    /\ call' = Pass([call EXCEPT ![c] = [st EXCEPT !.pc = "inflight", !.requests = 1]], c, d)
    /\ lastGap' = After(sinceStart, d)
    /\ sinceStart' = 0

\* a waitForRateLimit that books its slot when it reads the clock
Call_BookedSlot(c, u, mr, d) ==
    /\ call[c].pc = "idle"
    /\ CanPass(c, d)
    /\ LET elapsed == After(sinceStamp, d)
           st      == [IdleCall EXCEPT !.url = u, !.maxRetries = mr]
       IN  IF elapsed < MIN_DELAY_MS
           THEN /\ call' = Pass([call EXCEPT ![c] =
                                   [st EXCEPT !.pc = "pacing",
                                              !.sleepLeft = MIN_DELAY_MS - elapsed]], c, d)
                /\ sinceStamp' = 0
                /\ sinceStart' = After(sinceStart, d)
                /\ UNCHANGED lastGap
           ELSE StampAndFetch(c, st, d)

\* d ms after the latest event, fetchBinaryWithRateLimit(u, mr) is called:
\* waitForRateLimit reads the clock and the stamp and either sleeps or goes on
Call(c, u, mr, d) ==
    /\ call[c].pc = "idle"
    /\ CanPass(c, d)
    /\ LET elapsed == After(sinceStamp, d)
           st      == [IdleCall EXCEPT !.url = u, !.maxRetries = mr]
       IN  IF elapsed < MIN_DELAY_MS
           THEN /\ call' = Pass([call EXCEPT ![c] =
                                   [st EXCEPT !.pc = "pacing",
                                              !.sleepLeft = MIN_DELAY_MS - elapsed]], c, d)
                /\ sinceStamp' = elapsed
                /\ sinceStart' = After(sinceStart, d)
                /\ UNCHANGED lastGap
           ELSE StampAndFetch(c, st, d)

\* the sleep of waitForRateLimit ends
PacingWake(c) ==
    /\ call[c].pc = "pacing"
    /\ CanPass(c, call[c].sleepLeft)
    /\ StampAndFetch(c, [call[c] EXCEPT !.sleepLeft = 0], call[c].sleepLeft)

\* the retry branches: sleep(backoffMs) after a failed attempt that ended d ms
\* after the latest event
SleepBackoff(c, st, d) ==
    call' = Pass([call EXCEPT ![c] =
                    [st EXCEPT !.pc = "backoff", !.sleepLeft = BackoffMs(st.attempt)]], c, d)

\* the fetch of caller c is answered with an HTTP status, dur ms after the
\* latest event
Respond(c, status, dur) ==
    /\ call[c].pc = "inflight"
    /\ CanPass(c, dur)
    /\ LET st == [call[c] EXCEPT !.outcomes = Append(@, HttpOutcome(status))]
       IN  IF IsRetryableStatus(status) /\ st.attempt < st.maxRetries
           THEN SleepBackoff(c, st, dur)
           ELSE call' = Pass([call EXCEPT ![c] =
                                [st EXCEPT !.pc = "idle",
                                           !.result = [kind |-> "ok", status |-> status,
                                                       body |-> Len(st.outcomes)]]], c, dur)
    /\ sinceStamp' = After(sinceStamp, dur)
    /\ sinceStart' = After(sinceStart, dur)
    /\ UNCHANGED lastGap

\* the fetch of caller c fails at network level dur ms after the latest
\* event, retries left
NetFailRetry(c, dur) ==
    /\ call[c].pc = "inflight"
    /\ CanPass(c, dur)
    /\ call[c].attempt < call[c].maxRetries
    /\ SleepBackoff(c, [call[c] EXCEPT !.outcomes = Append(@, NetworkError)], dur)
    /\ sinceStamp' = After(sinceStamp, dur)
    /\ sinceStart' = After(sinceStart, dur)
    /\ UNCHANGED lastGap

\* the last fetch of caller c fails at network level dur ms after the latest
\* event: the loop ends and the external command runs to its end
\* (execFileSync, which holds up every pending timer) in curlDur ms
NetFailFallback(c, dur, curlOk, curlDur) ==
    /\ call[c].pc = "inflight"
    /\ CanPass(c, dur)
    /\ call[c].attempt >= call[c].maxRetries
    /\ call' = Pass([call EXCEPT ![c] =
                       [@ EXCEPT !.pc = "idle",
                                 !.outcomes = Append(@, NetworkError),
                                 !.curlCalls = @ + 1,
                                 !.curl = IF curlOk THEN "ok" ELSE "failed",
                                 !.result = IF curlOk
                                            THEN [kind |-> "ok", status |-> 200, body |-> 0]
                                            ELSE [kind |-> "error", status |-> 0, body |-> 0]]],
                    c, dur + curlDur)
    /\ lastGap' = After(sinceStart, dur)
    /\ sinceStart' = Capped(curlDur)
    /\ sinceStamp' = After(sinceStamp, dur + curlDur)

\* the backoff sleep ends: the loop goes to its next attempt and fetches
BackoffWake(c) ==
    /\ call[c].pc = "backoff"
    /\ CanPass(c, call[c].sleepLeft)
    /\ call' = Pass([call EXCEPT ![c] =
                       [@ EXCEPT !.pc = "inflight",
                                 !.attempt = @ + 1,
                                 !.requests = @ + 1,
                                 !.sleepLeft = 0,
                                 !.delays = Append(@, call[c].sleepLeft)]],
                    c, call[c].sleepLeft)
    /\ lastGap' = After(sinceStart, call[c].sleepLeft)
    /\ sinceStart' = 0
    /\ sinceStamp' = After(sinceStamp, call[c].sleepLeft)

-----------------------------------------------------------------------------
(* ingest: the orchestrator *)

Datasets == <<"law", "order">>

JsonFile(stem) == [stem |-> stem, ext |-> "json"]

KEY_TARGET_LAWS ==
    << [id |-> "tw-pdpa", pcode |-> "I0050021", shortName |-> "PDPA",
        fileName |-> JsonFile("01-personal-data-protection")],
       [id |-> "tw-csma", pcode |-> "A0030297", shortName |-> "CSMA",
        fileName |-> JsonFile("02-cybersecurity-management")],
       [id |-> "tw-tma", pcode |-> "K0060111", shortName |-> "TMA",
        fileName |-> JsonFile("03-telecommunications-management")],
       [id |-> "tw-esa", pcode |-> "J0080037", shortName |-> "ESA",
        fileName |-> JsonFile("04-electronic-signatures")],
       [id |-> "tw-fgia", pcode |-> "I0020026", shortName |-> "FGIA",
        fileName |-> JsonFile("05-freedom-of-government-information")],
       [id |-> "tw-criminal-code", pcode |-> "C0000001", shortName |-> "Criminal Code",
        fileName |-> JsonFile("06-criminal-code")],
       [id |-> "tw-fintech-sandbox", pcode |-> "G0380254", shortName |-> "FinTech Sandbox Act",
        fileName |-> JsonFile("07-fintech-sandbox")],
       [id |-> "tw-trade-secrets", pcode |-> "J0080028", shortName |-> "TSA",
        fileName |-> JsonFile("08-trade-secrets")],
       [id |-> "tw-cssa", pcode |-> "K0060044", shortName |-> "CSSA",
        fileName |-> JsonFile("09-communication-security-surveillance")],
       [id |-> "tw-epia", pcode |-> "G0380237", shortName |-> "AEPI",
        fileName |-> JsonFile("10-electronic-payment-institutions")] >>

\* the pcodes of the model in ascending order of localeCompare ('en', base)
PcodeOrder ==
    << "A0030297", "C0000001", "G0380237", "G0380254", "I0020026", "I0050021",
       "J0080028", "J0080037", "K0060044", "K0060111", "Z1234567" >>

PcodeRank(pcode) == CHOOSE r \in 1..Len(PcodeOrder) : PcodeOrder[r] = pcode

\* String.toUpperCase / toLowerCase on the pcodes of the model
ToUpperCase(str) ==
    CASE str = "z1234567" -> "Z1234567"
      [] str = "a0030297" -> "A0030297"
      [] OTHER -> str

ToLowerCase(str) ==
    CASE str = "Z1234567" -> "z1234567"
      [] str = "A0030297" -> "a0030297"
      [] OTHER -> str

\* A LawURL is modelled by the value of its pcode query parameter, "" when the
\* URL has none.  url.match(/[?&]pcode=([A-Z0-9]+)/i)?.[1]?.toUpperCase()
pcodeFromLawUrl(url) == IF url = "" THEN "" ELSE ToUpperCase(url)

\* `tw-${lower}` on the pcodes of the model
TwId(lower) ==
    CASE lower = "z1234567" -> "tw-z1234567"
      [] lower = "a0030297" -> "tw-a0030297"
      [] OTHER -> lower

\* (record.EngLawName?.trim() || record.LawName || pcode).slice(0, 80)
FallbackShortName(rec, pcode) ==
    IF TrimName(rec.EngLawName) # "" THEN TrimName(rec.EngLawName)
    ELSE IF rec.LawName # "" THEN rec.LawName
    ELSE pcode

KeyOverride(pcode) ==
    SelectSeq(KEY_TARGET_LAWS, LAMBDA t : t.pcode = pcode)

\* the targets pushed for the records, in record order
RECURSIVE PushTargets(_)
PushTargets(records) ==
    IF records = <<>> THEN <<>>
    ELSE LET rec   == Head(records)
             pcode == pcodeFromLawUrl(rec.LawURL)
         IN  (IF pcode = "" THEN <<>>
              ELSE IF KeyOverride(pcode) # <<>> THEN <<KeyOverride(pcode)[1]>>
              ELSE << [id        |-> TwId(ToLowerCase(pcode)),
                       pcode     |-> pcode,
                       shortName |-> FallbackShortName(rec, pcode),
                       fileName  |-> JsonFile(ToLowerCase(pcode))] >>)
             \o PushTargets(Tail(records))

\* Array.prototype.sort (stable) by pcode: insertion of t into a sorted list
RECURSIVE InsertByPcode(_, _)
InsertByPcode(sorted, t) ==
    IF sorted = <<>> THEN <<t>>
    ELSE IF PcodeRank(sorted[Len(sorted)].pcode) <= PcodeRank(t.pcode)
         THEN Append(sorted, t)
         ELSE Append(InsertByPcode(SubSeq(sorted, 1, Len(sorted) - 1), t),
                     sorted[Len(sorted)])

RECURSIVE SortByPcode(_)
SortByPcode(ts) ==
    IF ts = <<>> THEN <<>>
    ELSE InsertByPcode(SortByPcode(SubSeq(ts, 1, Len(ts) - 1)), ts[Len(ts)])

buildTargets(records, fullCorpus) ==
    IF ~fullCorpus THEN KEY_TARGET_LAWS ELSE SortByPcode(PushTargets(records))

\* the Map filled by the loop of main: the last record of each pcode
RECURSIVE IndexByPcode(_, _)
IndexByPcode(records, map) ==
    IF records = <<>> THEN map
    ELSE LET pcode == pcodeFromLawUrl(Head(records).LawURL)
         IN  IndexByPcode(Tail(records),
                          IF pcode = "" THEN map
                          ELSE [k \in DOMAIN map \cup {pcode} |->
                                  IF k = pcode THEN Head(records) ELSE map[k]])

\* A JSON text: a leading byte-order mark or not, and what follows it
NoText == [bom |-> FALSE, kind |-> "none", UpdateDate |-> "", Laws |-> <<>>]

JsonText(bom, laws) == [bom |-> bom, kind |-> "dataset", UpdateDate |-> "2026", Laws |-> laws]

\* text that is no JSON, and a JSON object without a Laws array
Garbage == [NoText EXCEPT !.kind = "garbage"]

NoLaws == [NoText EXCEPT !.kind = "object"]

\* jsonText.replace(/^\uFEFF/, '')
StripBom(text) == [text EXCEPT !.bom = FALSE]

\* JSON.parse: a byte-order mark or garbage is a syntax error
JsonParses(text) == ~text.bom /\ text.kind \in {"dataset", "object"}

NotParsed == [ok |-> FALSE, UpdateDate |-> "", Laws |-> <<>>]

\* parseOpenApiLawDataset: the dataset, or NotParsed when it throws
parseOpenApiLawDataset(jsonText) ==
    LET clean == StripBom(jsonText)
    IN  IF JsonParses(clean) /\ clean.kind = "dataset"
        THEN [ok |-> TRUE, UpdateDate |-> clean.UpdateDate, Laws |-> clean.Laws]
        ELSE NotParsed

\* fs.writeFileSync(path, content) in a directory
WriteFile(dir, name, content) ==
    [f \in DOMAIN dir \cup {name} |-> IF f = name THEN content ELSE dir[f]]

\* clearSeedDirectory: unlink every name that ends with .json
clearSeedDirectory(dir) ==
    [f \in {g \in DOMAIN dir : g.ext # "json"} |-> dir[f]]

\* main with its two loads swapped
StepAfter_OrderFirst(step) ==
    CASE step = "start"     -> "loadOrder"
      [] step = "loadOrder" -> "loadLaw"
      [] step = "loadLaw"   -> "parseLaw"
      [] step = "parseLaw"  -> "parseOrder"
      [] step = "parseOrder" -> "resolve"
      [] step = "resolve"   -> "loop"

\* the order of the statements of main up to the target loop
StepAfter(step) ==
    CASE step = "start"     -> "loadLaw"
      [] step = "loadLaw"   -> "loadOrder"
      [] step = "loadOrder" -> "parseLaw"
      [] step = "parseLaw"  -> "parseOrder"
      [] step = "parseOrder" -> "resolve"
      [] step = "resolve"   -> "loop"

DatasetOf(step) == IF step = "loadLaw" THEN "law" ELSE "order"

InitMain ==
    [pc |-> StepAfter("start"), fetching |-> FALSE, skipFetch |-> FALSE, fullCorpus |-> TRUE,
     jsonText |-> [d \in {"law", "order"} |-> NoText],
     dataset  |-> [d \in {"law", "order"} |-> NotParsed],
     targets |-> <<>>, recordsByPcode |-> <<>>, i |-> 0,
     written |-> 0, totalProvisions |-> 0, totalDefinitions |-> 0,
     missing |-> <<>>, exitCode |-> -1]

Loading == main.pc \in {"loadLaw", "loadOrder"}

Fatal == main' = [main EXCEPT !.pc = "failed", !.fetching = FALSE, !.exitCode = 1]

\* loadOpenApiDataset with --skip-fetch and the extracted JSON in the cache
LoadCached ==
    /\ Loading /\ ~main.fetching
    /\ main.skipFetch /\ sourceDir[DatasetOf(main.pc)].json # NoText
    /\ main' = [main EXCEPT !.pc = StepAfter(main.pc),
                            !.jsonText[DatasetOf(main.pc)] = sourceDir[DatasetOf(main.pc)].json]
    /\ UNCHANGED <<remote, sourceDir, seedDir, fetchLog, writeLog>>

\* a loadOpenApiDataset that empties the seed directory before it fetches
StartFetch_ClearFirst ==
    /\ Loading /\ ~main.fetching
    /\ ~(main.skipFetch /\ sourceDir[DatasetOf(main.pc)].json # NoText)
    /\ main' = [main EXCEPT !.fetching = TRUE]
    /\ fetchLog' = Append(fetchLog, DatasetOf(main.pc))
    /\ seedDir' = clearSeedDirectory(seedDir)
    /\ UNCHANGED <<remote, sourceDir, writeLog>>

\* loadOpenApiDataset otherwise: fetchBinaryWithRateLimit(config.url) is called
StartFetch ==
    /\ Loading /\ ~main.fetching
    /\ ~(main.skipFetch /\ sourceDir[DatasetOf(main.pc)].json # NoText)
    /\ main' = [main EXCEPT !.fetching = TRUE]
    /\ fetchLog' = Append(fetchLog, DatasetOf(main.pc))
    /\ UNCHANGED <<remote, sourceDir, seedDir, writeLog>>

\* fetchBinaryWithRateLimit throws: retries and fallback exhausted
FetchThrows ==
    /\ Loading /\ main.fetching
    /\ Fatal
    /\ UNCHANGED <<remote, sourceDir, seedDir, fetchLog, writeLog>>

\* the fetch returns a status other than 200: loadOpenApiDataset throws
FetchNot200 ==
    /\ Loading /\ main.fetching
    /\ Fatal
    /\ UNCHANGED <<remote, sourceDir, seedDir, fetchLog, writeLog>>

\* the fetch returns 200: the ZIP is saved, the entry extracted and saved
FetchOk ==
    /\ Loading /\ main.fetching
    /\ LET d == DatasetOf(main.pc)
       IN  IF remote[d].zipOk
           THEN /\ sourceDir' = [sourceDir EXCEPT ![d] = [zip |-> TRUE, json |-> remote[d].entry]]
                /\ main' = [main EXCEPT !.pc = StepAfter(main.pc), !.fetching = FALSE,
                                        !.jsonText[d] = remote[d].entry]
           ELSE /\ sourceDir' = [sourceDir EXCEPT ![d].zip = TRUE]
                /\ Fatal
    /\ UNCHANGED <<remote, seedDir, fetchLog, writeLog>>

\* parseOpenApiLawDataset of one JSON text
ParseDataset ==
    /\ main.pc \in {"parseLaw", "parseOrder"}
    /\ LET d      == IF main.pc = "parseLaw" THEN "law" ELSE "order"
           parsed == parseOpenApiLawDataset(main.jsonText[d])
       IN  IF parsed.ok
           THEN main' = [main EXCEPT !.pc = StepAfter(main.pc), !.dataset[d] = parsed]
           ELSE Fatal
    /\ UNCHANGED <<remote, sourceDir, seedDir, fetchLog, writeLog>>

\* mergedRecords, buildTargets, recordsByPcode and clearSeedDirectory
Resolve ==
    /\ main.pc = "resolve"
    /\ LET mergedRecords == main.dataset["law"].Laws \o main.dataset["order"].Laws
       IN  main' = [main EXCEPT !.pc = StepAfter(main.pc),
                                !.targets = buildTargets(mergedRecords, main.fullCorpus),
                                !.recordsByPcode = IndexByPcode(mergedRecords, <<>>),
                                !.i = 0]
    /\ seedDir' = clearSeedDirectory(seedDir)
    /\ UNCHANGED <<remote, sourceDir, fetchLog, writeLog>>

\* the seed of a target is written to its file and counted
WriteSeed(tgt, seed) ==
    /\ seedDir' = WriteFile(seedDir, tgt.fileName, seed)
    /\ writeLog' = Append(writeLog, tgt.fileName)
    /\ main' = [main EXCEPT
                  !.totalProvisions = @ + Len(seed.provisions),
                  !.totalDefinitions = @ + Len(seed.definitions),
                  !.written = @ + 1,
                  !.i = @ + 1]

\* a target loop that gives up at the first target without a record
LoopBody_AbortOnMissing(tgt) ==
    IF tgt.pcode \notin DOMAIN main.recordsByPcode
    THEN /\ Fatal
         /\ UNCHANGED <<seedDir, writeLog, regexLastIndex>>
    ELSE /\ WriteSeed(tgt, parseLawToSeed(main.recordsByPcode[tgt.pcode], tgt,
                                          clockH, tzOffsetH, regexLastIndex))
         /\ regexLastIndex' = LastIndexAfter(main.recordsByPcode[tgt.pcode], regexLastIndex)

\* one iteration of the target loop on target tgt
LoopBody(tgt) ==
    IF tgt.pcode \notin DOMAIN main.recordsByPcode
    THEN /\ main' = [main EXCEPT !.missing = Append(@, tgt), !.i = @ + 1]
         /\ UNCHANGED <<seedDir, writeLog, regexLastIndex>>
    ELSE /\ WriteSeed(tgt, parseLawToSeed(main.recordsByPcode[tgt.pcode], tgt,
                                          clockH, tzOffsetH, regexLastIndex))
         /\ regexLastIndex' = LastIndexAfter(main.recordsByPcode[tgt.pcode], regexLastIndex)

ProcessTarget ==
    /\ main.pc = "loop" /\ main.i < Len(main.targets)
    /\ LoopBody(main.targets[main.i + 1])
    /\ UNCHANGED <<remote, sourceDir, fetchLog>>

\* the summary is printed and main returns
Finish ==
    /\ main.pc = "loop" /\ main.i >= Len(main.targets)
    /\ main' = [main EXCEPT !.pc = "done", !.exitCode = 0]
    /\ UNCHANGED <<remote, sourceDir, seedDir, fetchLog, writeLog>>

-----------------------------------------------------------------------------
(* The inputs of a run of the orchestrator *)

MaxLaws == 1

OneArticle ==
    << [ArticleType |-> "A", ArticleNo |-> <<ChDi, " ", "1", " ", ChTiao>>,
        ArticleContent |-> <<"a">>] >>

IngestRecords ==
    { [BaseRecord EXCEPT !.LawURL = "A0030297", !.LawName = "csma", !.LawArticles = OneArticle],
      [BaseRecord EXCEPT !.LawURL = "Z1234567", !.LawName = "z law", !.EngLawName = "Z Act",
                         !.LawArticles = OneArticle],
      [BaseRecord EXCEPT !.LawURL = "z1234567", !.LawName = "z order", !.EngLawName = " "],
      [BaseRecord EXCEPT !.LawName = "no pcode"] }

LawLists == UNION {[1..n -> IngestRecords] : n \in 0..MaxLaws}

\* what an endpoint serves: a ZIP whose entry extracts, or one that does not
Payloads ==
    { [zipOk |-> FALSE, entry |-> NoText],
      [zipOk |-> TRUE, entry |-> Garbage],
      [zipOk |-> TRUE, entry |-> NoLaws],
      [zipOk |-> TRUE, entry |-> JsonText(TRUE, <<>>)] }
    \cup { [zipOk |-> TRUE, entry |-> JsonText(FALSE, laws)] : laws \in LawLists }

NoCache == [zip |-> FALSE, json |-> NoText]

Cached == [zip |-> TRUE, json |-> JsonText(FALSE, <<>>)]

\* the seed files a previous run left, and a file that is no seed
PreviousSeed ==
    [f \in {JsonFile("old"), JsonFile("z1234567"), [stem |-> "README", ext |-> "md"]} |-> NoAct]

InitIngest ==
    /\ \E sf \in BOOLEAN, fc \in BOOLEAN :
          main = [InitMain EXCEPT !.skipFetch = sf, !.fullCorpus = fc]
    /\ remote \in [{"law", "order"} -> Payloads]
    /\ sourceDir \in [{"law", "order"} -> {NoCache, Cached}]
    /\ seedDir = PreviousSeed
    /\ fetchLog = <<>>
    /\ writeLog = <<>>

IngestIdle ==
    /\ main = InitMain
    /\ remote = [d \in {"law", "order"} |-> [zipOk |-> FALSE, entry |-> NoText]]
    /\ sourceDir = [d \in {"law", "order"} |-> NoCache]
    /\ seedDir = PreviousSeed
    /\ fetchLog = <<>>
    /\ writeLog = <<>>

SeedIdle ==
    /\ record = BaseRecord
    /\ target \in Targets
    /\ clockH = ClockDay * HoursPerDay
    /\ tzOffsetH = 0
    /\ act = NoAct
    /\ regexLastIndex = 1
    /\ firstAct = NoAct
    /\ callLog = <<>>

-----------------------------------------------------------------------------
(* Specifications *)

vars == <<seedVars, scanVars, fetchVars, ingestVars>>

\* the transformer, applied once to a record drawn from SeedRecords
InitSeed == SeedInputs /\ InitFetch /\ IngestIdle

TransformNext == Transform /\ UNCHANGED <<fetchVars, ingestVars>>

NextSeed == TransformNext

SpecSeed == InitSeed /\ [][NextSeed]_vars

\* the transformer called again and again, on one record and on others
InitRepeat == RepeatInputs /\ InitFetch /\ IngestIdle

FirstCallNext == Transform /\ UNCHANGED <<fetchVars, ingestVars>>

TransformAgainNext == TransformAgain /\ UNCHANGED <<fetchVars, ingestVars>>

TransformOtherNext ==
    /\ \E r \in OtherRecords : TransformOther(r)
    /\ UNCHANGED <<fetchVars, ingestVars>>

ClockAdvanceNext ==
    /\ \E h \in ClockHours : ClockAdvance(h)
    /\ UNCHANGED <<fetchVars, ingestVars>>

NextRepeat ==
    \/ FirstCallNext
    \/ TransformAgainNext
    \/ TransformOtherNext
    \/ ClockAdvanceNext

SpecRepeat == InitRepeat /\ [][NextRepeat]_vars

\* the fetcher, driven by a single sequential caller
InitFetcher == InitFetch /\ SeedIdle /\ IngestIdle

CallNext ==
    /\ \E u \in Urls, mr \in RetryChoices, d \in IdleGaps : Call(1, u, mr, d)
    /\ UNCHANGED <<seedVars, scanVars, ingestVars>>

PacingWakeNext == PacingWake(1) /\ UNCHANGED <<seedVars, scanVars, ingestVars>>

RespondNext ==
    /\ \E status \in Statuses, dur \in ReqDurations : Respond(1, status, dur)
    /\ UNCHANGED <<seedVars, scanVars, ingestVars>>

NetFailRetryNext ==
    /\ \E dur \in ReqDurations : NetFailRetry(1, dur)
    /\ UNCHANGED <<seedVars, scanVars, ingestVars>>

NetFailFallbackNext ==
    /\ \E dur \in ReqDurations, curlOk \in BOOLEAN, curlDur \in ReqDurations :
          NetFailFallback(1, dur, curlOk, curlDur)
    /\ UNCHANGED <<seedVars, scanVars, ingestVars>>

BackoffWakeNext == BackoffWake(1) /\ UNCHANGED <<seedVars, scanVars, ingestVars>>

NextFetch ==
    \/ CallNext
    \/ PacingWakeNext
    \/ RespondNext
    \/ NetFailRetryNext
    \/ NetFailFallbackNext
    \/ BackoffWakeNext

SpecFetch == InitFetcher /\ [][NextFetch]_vars

\* the fetcher with two callers whose calls overlap; every request is answered
RaceCallNext ==
    /\ \E c \in Callers, u \in Urls, d \in IdleGaps : Call(c, u, DefaultMaxRetries, d)
    /\ UNCHANGED <<seedVars, scanVars, ingestVars>>

RacePacingWakeNext ==
    /\ \E c \in Callers : PacingWake(c)
    /\ UNCHANGED <<seedVars, scanVars, ingestVars>>

RaceRespondNext ==
    /\ \E c \in Callers, status \in {200, 404}, dur \in ReqDurations : Respond(c, status, dur)
    /\ UNCHANGED <<seedVars, scanVars, ingestVars>>

NextRace ==
    \/ RaceCallNext
    \/ RacePacingWakeNext
    \/ RaceRespondNext

SpecRace == InitFetcher /\ [][NextRace]_vars

\* one run of the orchestrator
InitRun == InitIngest /\ SeedIdle /\ InitFetch

LoadCachedNext == LoadCached /\ UNCHANGED <<seedVars, scanVars, fetchVars>>

StartFetchNext == StartFetch /\ UNCHANGED <<seedVars, scanVars, fetchVars>>

FetchThrowsNext == FetchThrows /\ UNCHANGED <<seedVars, scanVars, fetchVars>>

FetchNot200Next == FetchNot200 /\ UNCHANGED <<seedVars, scanVars, fetchVars>>

FetchOkNext == FetchOk /\ UNCHANGED <<seedVars, scanVars, fetchVars>>

ParseDatasetNext == ParseDataset /\ UNCHANGED <<seedVars, scanVars, fetchVars>>

ResolveNext == Resolve /\ UNCHANGED <<seedVars, scanVars, fetchVars>>

ProcessTargetNext == ProcessTarget /\ UNCHANGED <<seedVars, firstAct, callLog, fetchVars>>

FinishNext == Finish /\ UNCHANGED <<seedVars, scanVars, fetchVars>>

NextIngest ==
    \/ LoadCachedNext
    \/ StartFetchNext
    \/ FetchThrowsNext
    \/ FetchNot200Next
    \/ FetchOkNext
    \/ ParseDatasetNext
    \/ ResolveNext
    \/ ProcessTargetNext
    \/ FinishNext

SpecIngest == InitRun /\ [][NextIngest]_vars

\* the whole program is the orchestrator's run
Init == InitRun

Next == NextIngest

Spec == SpecIngest

-----------------------------------------------------------------------------
(* Claims about the transformer *)

Transformed == act # NoAct

\* C1: no two provisions of the Act returned by parseLawToSeed have the same
\* provision_ref, whatever the sequence of articles (hyphenated sections included).
C1_ProvisionRefUnique ==
    Transformed =>
        \A i, j \in 1..Len(act.provisions) :
            i # j => act.provisions[i].provision_ref # act.provisions[j].provision_ref

\* C2: within the Act returned, no two provisions have the same section, so
\* (Act identifier, section) addresses at most one provision.
C2_SectionUnique ==
    Transformed =>
        \A i, j \in 1..Len(act.provisions) :
            i # j => act.provisions[i].section # act.provisions[j].section

\* the number of provisions up to the i-th that share its base reference
RankInBase(provisions, i) ==
    Cardinality({j \in 1..i : RawRef(provisions[j].section) = RawRef(provisions[i].section)})

\* C7: among the emitted provisions that share a base reference, the first in
\* article order carries the bare base reference and the k-th (k >= 2) carries
\* the base reference followed by "-k", also when an earlier article of the same
\* section had empty content and produced no provision.
C7_SuffixByEmittedRank ==
    Transformed =>
        \A i \in 1..Len(act.provisions) :
            LET base == RawRef(act.provisions[i].section)
                k    == RankInBase(act.provisions, i)
            IN  act.provisions[i].provision_ref =
                    (IF k = 1 THEN base ELSE base \o <<"-">> \o NumToString(k))

NoAbandonNote == ~(IsTruthy(record.LawAbandonNote) /\ Trim(record.LawAbandonNote) # <<>>)

HasSentinel == TrimOpt(record.LawEffectiveDate) = SentinelDate

\* the calendar day (days since the epoch) the effective date names, -1 if none
EffectiveDay ==
    IF parseDate(record.LawEffectiveDate) = <<>> THEN -1
    ELSE parseDate(record.LawEffectiveDate)[1] \div HoursPerDay

Today == LocalDay(clockH, tzOffsetH)

\* C8: with no abandonment note, an effective date equal to the machine's
\* current calendar date gives in_force and the following day gives
\* not_yet_in_force, at every time of day and in every time zone.
C8_DayGranularity ==
    (Transformed /\ NoAbandonNote /\ ~HasSentinel) =>
        /\ EffectiveDay = Today => act.status = "in_force"
        /\ EffectiveDay = Today + 1 => act.status = "not_yet_in_force"

\* C9: the status follows the priority repealed > amended > not_yet_in_force >
\* in_force (an abandonment note, else the sentinel date, else a valid date
\* later than the current date, else in_force), and a sentinel effective date
\* never yields an in_force_date.
C9_StatusPriority ==
    Transformed =>
        /\ act.status = (IF ~NoAbandonNote THEN "repealed"
                         ELSE IF HasSentinel THEN "amended"
                         ELSE IF EffectiveDay > Today THEN "not_yet_in_force"
                         ELSE "in_force")
        /\ HasSentinel => act.in_force_date = Undefined

\* the articles that yield a provision: type A, normalized content not empty
EmittedArticles ==
    SelectSeq(record.LawArticles,
              LAMBDA article : /\ article.ArticleType = "A"
                               /\ normalizeText(OrEmpty(article.ArticleContent)) # <<>>)

\* the heading of an article with white-space runs collapsed and trimmed
CollapsedHeading(article) == normalizeLooseWhitespace(OrEmpty(article.ArticleNo))

\* C11: the title of every provision is non-empty: it is the article heading
\* with white-space runs collapsed and trimmed, or, when that is empty (heading
\* absent, empty or white space only), the synthesized "DI section TIAO".
C11_TitleNonEmpty ==
    (Transformed /\ Len(act.provisions) = Len(EmittedArticles)) =>
        \A i \in 1..Len(act.provisions) :
            /\ act.provisions[i].title # <<>>
            /\ act.provisions[i].title =
                  (IF CollapsedHeading(EmittedArticles[i]) = <<>>
                   THEN SynthTitle(act.provisions[i].section)
                   ELSE CollapsedHeading(EmittedArticles[i]))

\* C12: the provisions are, in article order, exactly one for each article of
\* type "A" whose normalized content is not empty (with that content and, when
\* the heading is not blank, that heading); an article of another type or with
\* empty normalized content yields no provision and no definition, and no
\* provision has empty content.
C12_ProvisionsAreTypeANonEmpty ==
    Transformed =>
        /\ Len(act.provisions) = Len(EmittedArticles)
        /\ \A i \in 1..Len(act.provisions) :
              /\ act.provisions[i].content # <<>>
              /\ i <= Len(EmittedArticles) =>
                    /\ act.provisions[i].content =
                          normalizeText(OrEmpty(EmittedArticles[i].ArticleContent))
                    /\ CollapsedHeading(EmittedArticles[i]) # <<>> =>
                          act.provisions[i].title = CollapsedHeading(EmittedArticles[i])
        /\ EmittedArticles = <<>> => act.definitions = <<>>

\* a record with an article of another type and a type-A article of empty
\* content has been transformed into at least one provision
C12_Witness ==
    /\ Transformed
    /\ \E i \in 1..Len(record.LawArticles) : record.LawArticles[i].ArticleType # "A"
    /\ \E i \in 1..Len(record.LawArticles) :
          /\ record.LawArticles[i].ArticleType = "A"
          /\ normalizeText(OrEmpty(record.LawArticles[i].ArticleContent)) = <<>>
    /\ Len(act.provisions) >= 1

\* C14: parseLawToSeed is deterministic: every call on the same record, with
\* the same target and on the same current date, returns the Act the first
\* call returned, whatever calls on other records ran before or between them
\* (the scan position of SECTION_ENUM_REGEX carries nothing from call to call).
C14_Deterministic ==
    /\ act # NoAct => act = firstAct
    /\ regexLastIndex = 1

\* a record with definitions was transformed, another record after it, and
\* the first record again
C14_Witness ==
    /\ callLog = <<"record", "other", "record">>
    /\ act # NoAct /\ act.definitions # <<>>

\* C15: a definition is produced only from an article whose normalized content
\* contains the marker phrase (content without it yields no definition,
\* whatever enumerated clauses it holds), and the source_provision of every
\* definition is the provision_ref of the provision emitted for that article:
\* a provision whose content holds the marker phrase and the term.
C15_DefinitionsNeedMarker ==
    act # NoAct =>
        /\ \A k \in 1..Len(act.definitions) :
              \E i \in 1..Len(act.provisions) :
                 /\ act.provisions[i].provision_ref = act.definitions[k].source_provision
                 /\ Includes(act.provisions[i].content, Marker)
                 /\ Includes(normalizeLooseWhitespace(act.provisions[i].content),
                             act.definitions[k].term)
        /\ (\A i \in 1..Len(act.provisions) : ~Includes(act.provisions[i].content, Marker))
              => act.definitions = <<>>

\* two articles of one section with enumerated clauses, the first without
\* the marker phrase and the second with it, gave definitions
C15_Witness ==
    /\ act # NoAct
    /\ Len(act.provisions) = 2
    /\ ~Includes(act.provisions[1].content, Marker)
    /\ Includes(act.provisions[1].content, TwoClauses)
    /\ Includes(act.provisions[2].content, Marker)
    /\ act.definitions # <<>>

-----------------------------------------------------------------------------
(* Claims about the fetcher (single sequential caller, caller 1) *)

\* an attempt that ended in HTTP 429, HTTP 5xx or a network-level failure
FailedAttempt(o) == o.net \/ o.status = 429 \/ o.status >= 500

CallEnded == call[1].pc = "idle" /\ call[1].result.kind # "none"

AllAttemptsFailed ==
    /\ Len(call[1].outcomes) = call[1].maxRetries + 1
    /\ \A i \in 1..Len(call[1].outcomes) : FailedAttempt(call[1].outcomes[i])

\* C3: when all maxRetries+1 in-process attempts of a call have failed (by
\* HTTP 429/5xx or by network failures) the external fetch is invoked exactly
\* once before the call ends, it is invoked in no other case, and the call
\* fails with an error only if the external fetch fails too.
C3_FallbackOnExhaustion ==
    CallEnded =>
        /\ AllAttemptsFailed <=> call[1].curlCalls = 1
        /\ call[1].curlCalls <= 1
        /\ call[1].result.kind = "error" => call[1].curl = "failed"

\* C4: every two consecutive outbound requests (retries, the external fetch
\* and the first request of the next call included) start at least
\* MIN_DELAY_MS apart.
C4_PacingFloor == lastGap = -1 \/ lastGap >= 1200

\* C5: a further in-process attempt is made only after attempt k < maxRetries
\* ended in HTTP 429, HTTP 5xx or a network failure, and only after a delay of
\* 2^(k+1) seconds; any other status is returned at once with no delay, no
\* retry and no fallback; 429, 429, 200 gives delays of 2 s and 4 s and the
\* body of the 200 response; at most maxRetries+1 attempts are made.
C5_RetryDiscipline ==
    LET st == call[1]
    IN  /\ st.requests <= st.maxRetries + 1
        /\ st.requests >= 1 => st.requests = Len(st.delays) + 1
        /\ \A k \in 1..Len(st.delays) :
              /\ k - 1 < st.maxRetries
              /\ FailedAttempt(st.outcomes[k])
              /\ st.delays[k] = (2 ^ k) * 1000
        /\ \A k \in 1..Len(st.outcomes) :
              ~FailedAttempt(st.outcomes[k]) =>
                  /\ k = Len(st.outcomes)
                  /\ st.pc = "idle"
                  /\ st.result = [kind |-> "ok", status |-> st.outcomes[k].status, body |-> k]
                  /\ st.curlCalls = 0
                  /\ Len(st.delays) = k - 1
        /\ st.outcomes = <<HttpOutcome(429), HttpOutcome(429), HttpOutcome(200)>> =>
              /\ st.delays = <<2000, 4000>>
              /\ st.result = [kind |-> "ok", status |-> 200, body |-> 3]

\* a call answered 429, 429, 200 has ended
C5_Witness ==
    /\ call[1].outcomes = <<HttpOutcome(429), HttpOutcome(429), HttpOutcome(200)>>
    /\ call[1].pc = "idle"

\* the caller other than c
Other(c) == CHOOSE o \in Callers : o # c

\* caller c sleeps in waitForRateLimit on a reading of lastRequestAt that has
\* been overwritten since
StaleSleeper(c) ==
    call[c].pc = "pacing" /\ sinceStamp + call[c].sleepLeft < MIN_DELAY_MS

\* C16: the pacing state is not safe for concurrent callers. Two callers
\* that are in the pacing wait at the same time have read the same
\* lastRequestAt and sleep until the same instant; when the first of them
\* wakes and starts its request, the other is due at that very instant, so
\* the two requests start less than MIN_DELAY_MS apart.
C16_PacingRace ==
    /\ (call[1].pc = "pacing" /\ call[2].pc = "pacing")
          => call[1].sleepLeft = call[2].sleepLeft
    /\ \A c \in Callers :
          StaleSleeper(c) =>
              /\ call[c].sleepLeft = 0
              /\ call[Other(c)].pc = "inflight"
              /\ sinceStart = 0

\* both callers slept in the pacing wait and their requests, both in flight,
\* started less than MIN_DELAY_MS apart
C16_Witness ==
    /\ call[1].pc = "inflight" /\ call[2].pc = "inflight"
    /\ lastGap >= 0 /\ lastGap < MIN_DELAY_MS
    /\ sinceStart = 0 /\ sinceStamp = 0

-----------------------------------------------------------------------------
(* Claims about the orchestrator *)

Resolved == main.pc \in {"loop", "done"}

NoDuplicates(seq) == \A i, j \in 1..Len(seq) : i # j => seq[i] # seq[j]

\* C6: in full-corpus mode the resolved target list holds at most one target
\* per pcode (no two targets share a file name, no file is written twice), even
\* when a pcode occurs in several records of the merged datasets.
C6_OneTargetPerPcode ==
    (Resolved /\ main.fullCorpus) =>
        /\ NoDuplicates([i \in 1..Len(main.targets) |-> main.targets[i].pcode])
        /\ NoDuplicates([i \in 1..Len(main.targets) |-> main.targets[i].fileName])
        /\ NoDuplicates(writeLog)

OrderFetchStarted == \E i \in 1..Len(fetchLog) : fetchLog[i] = "order"

\* C10 as claimed: the law dataset is completely fetched, extracted and parsed
\* before the fetch of the order dataset starts.
C10_LawParsedBeforeOrderFetch == OrderFetchStarted => main.dataset["law"].ok

\* C10 as amended: the law dataset is completely fetched and extracted (or
\* read from the cache) before the fetch of the order dataset starts, each
\* dataset is fetched at most once, and no dataset is parsed before both have
\* been loaded.
C10_LawLoadedBeforeOrderFetch ==
    /\ OrderFetchStarted => main.jsonText["law"] # NoText
    /\ fetchLog \in {<<>>, <<"law">>, <<"order">>, <<"law", "order">>}
    /\ main.dataset["law"].ok => main.jsonText["order"] # NoText
    /\ main.dataset["order"].ok => main.dataset["law"].ok

\* both datasets were fetched in this run and the law dataset has been parsed
C10_Witness == fetchLog = <<"law", "order">> /\ main.dataset["law"].ok

\* the k-th target was recorded as missing / its file was written
RecordedMissing(k) == \E j \in 1..Len(main.missing) : main.missing[j] = main.targets[k]

Written(k) == \E j \in 1..Len(writeLog) : writeLog[j] = main.targets[k].fileName

\* C13: a target whose pcode is absent from the merged dataset never aborts
\* the run (a run fails only before its targets are resolved); the loop goes on
\* to every later target, and when the run completes every target has been
\* either written or recorded as missing, never both and never neither
\* (written + missing = number of targets), with exit code 0.
C13_MissingTargetNonFatal ==
    /\ main.pc = "failed" => (main.targets = <<>> /\ main.missing = <<>> /\ writeLog = <<>>)
    /\ main.pc \in {"loop", "done"} =>
          /\ main.i = main.written + Len(main.missing)
          /\ main.written = Len(writeLog)
    /\ main.pc = "done" =>
          /\ main.exitCode = 0
          /\ main.written + Len(main.missing) = Len(main.targets)
          /\ \A k \in 1..Len(main.targets) :
                /\ RecordedMissing(k) # Written(k)
                /\ RecordedMissing(k) <=> main.targets[k].pcode \notin DOMAIN main.recordsByPcode

\* a run has completed in which the first target was missing and a later
\* target was written
C13_Witness ==
    /\ main.pc = "done"
    /\ Len(main.missing) >= 1 /\ main.missing[1] = main.targets[1]
    /\ main.written >= 1


\* C17: seed files are deleted only after both datasets have been loaded and
\* parsed: until then, and in every run that ends with a failed fetch, a
\* download that is not a 200, a failed extraction or a failed parse, the seed
\* directory is the one the previous run left and no seed file is written.
C17_SeedKeptOnFailure ==
    /\ ~Resolved => (seedDir = PreviousSeed /\ writeLog = <<>>)
    /\ (seedDir # PreviousSeed \/ writeLog # <<>>) =>
           (main.dataset["law"].ok /\ main.dataset["order"].ok)

\* a run that failed at the last point where it can: the law dataset is
\* parsed, the order dataset is loaded and its parse throws
C17_Witness ==
    /\ main.pc = "failed" /\ main.exitCode = 1
    /\ main.dataset["law"].ok
    /\ main.jsonText["order"] # NoText
    /\ ~main.dataset["order"].ok
    /\ fetchLog # <<>>
    /\ seedDir = PreviousSeed

=============================================================================
